---- MODULE Spec2Model ----
(***************************************************************************)
(* A model of wayscriber's input/state core:                               *)
(*   src/src/input/state/core/tool_controls.rs  (setters, toolbar flags,   *)
(*                                               rainbow colorizer)        *)
(*   src/src/input/state/render.rs              (provisional shapes)       *)
(*                                                                         *)
(* InputState is one mutable aggregate, so the model keeps it in a single  *)
(* record variable, self, whose fields carry the struct's field names.     *)
(* Every method is one action.  last records the call that produced the    *)
(* current state (method, argument, return value) and pre is the value of  *)
(* self when that call began.                                              *)
(*                                                                         *)
(* Numbers.  The f64 style values (thickness, eraser size, opacity, font   *)
(* size) are counted in steps of 2^-53, the spacing of the doubles in      *)
(* [0.5, 1): f64::EPSILON = 2^-52 is two steps.  STEPS abstracts the       *)
(* number of steps in one natural unit (a pixel for the sizes, a hundredth *)
(* for the opacity).  Doubles >= 1.0 are at least EPSILON apart, so the    *)
(* size inputs are multiples of F64_EPSILON; the opacity lies below 1.0,   *)
(* where neighbouring doubles are closer than EPSILON.  NaN is a value of  *)
(* its own with IEEE-754 semantics: it propagates through arithmetic and   *)
(* clamp, and every ordered comparison with it is false.                   *)
(* Hues and distances of the rainbow colorizer are whole degrees and       *)
(* pixels; `%` is Rust's remainder, whose sign is the dividend's.          *)
(***************************************************************************)
EXTENDS Integers, Sequences, FiniteSets, TLC

VARIABLES self, pre, last

vars == <<self, pre, last>>

----------------------------------------------------------------------------
(* Bounds of the model *)

\* steps (2^-53) modelled per natural unit
STEPS == 4

\* longest point sequence a gesture accumulates
MaxPoints == 2

----------------------------------------------------------------------------
(* f64 *)

NaN == -1000000

F64_EPSILON == 2

Fx(n) == n * STEPS

FAdd(a, b) == IF a = NaN \/ b = NaN THEN NaN ELSE a + b

FSub(a, b) == IF a = NaN \/ b = NaN THEN NaN ELSE a - b

FAbs(a) == IF a = NaN THEN NaN ELSE IF a < 0 THEN -a ELSE a

FLt(a, b) == a # NaN /\ b # NaN /\ a < b

FLe(a, b) == a # NaN /\ b # NaN /\ a <= b

\* f64::clamp: NaN stays NaN
FClamp(x, lo, hi) ==
  IF x = NaN THEN NaN
  ELSE IF x < lo THEN lo
  ELSE IF x > hi THEN hi
  ELSE x

\* (clamped - current).abs() < f64::EPSILON
WithinEpsilon(clamped, current) == FLt(FAbs(FSub(clamped, current)), F64_EPSILON)

----------------------------------------------------------------------------
(* Tool, DrawingState *)

Tools == {"Pen", "Line", "Rect", "Ellipse", "Arrow", "Marker", "Highlight",
          "Eraser", "Select"}

\* Option<Tool>::None
NoTool == "None"

OptTools == Tools \cup {NoTool}

Idle == [kind |-> "Idle", tool |-> NoTool, start_x |-> 0, start_y |-> 0,
         points |-> <<>>, buffer |-> ""]

Drawing(tool, x, y, points) ==
  [kind |-> "Drawing", tool |-> tool, start_x |-> x, start_y |-> y,
   points |-> points, buffer |-> ""]

TextInput(x, y, buffer) ==
  [kind |-> "TextInput", tool |-> NoTool, start_x |-> x, start_y |-> y,
   points |-> <<>>, buffer |-> buffer]

\* the tool a gesture starts with when no override is set
DefaultTool == "Pen"

active_tool == IF self.tool_override # NoTool THEN self.tool_override ELSE DefaultTool

----------------------------------------------------------------------------
(* Program constants *)

MIN_STROKE_THICKNESS == Fx(1)

MAX_STROKE_THICKNESS == Fx(50)

MIN_MARKER_OPACITY == Fx(5)

MAX_MARKER_OPACITY == Fx(90)

MIN_FONT_SIZE == Fx(8)

MAX_FONT_SIZE == Fx(72)

----------------------------------------------------------------------------
(* Construction *)

\* Option<T>
None == <<>>

Some(x) == <<x>>

\* Color: r, g, b in sixtieths; a in the unit of the opacity, Fx(100) = 1.0
Color(r, g, b, a) == [r |-> r, g |-> g, b |-> b, a |-> a]

Red == Color(60, 0, 0, Fx(100))

Init ==
  /\ self = [state |-> Idle,
             tool_override |-> NoTool,
             current_thickness |-> Fx(25),
             eraser_size |-> Fx(25),
             marker_opacity |-> Fx(50),
             current_font_size |-> Fx(12),
             current_color |-> Red,
             highlight_color |-> Red,
             font_descriptor |-> "Sans",
             fill_enabled |-> FALSE,
             dirty_full |-> FALSE,
             needs_redraw |-> FALSE,
             toolbar_visible |-> FALSE,
             toolbar_top_visible |-> FALSE,
             toolbar_side_visible |-> FALSE,
             toolbar_top_pinned |-> FALSE,
             toolbar_side_pinned |-> FALSE,
             toolbar_sections |-> <<FALSE, FALSE, FALSE, FALSE, FALSE>>,
             rainbow_mode_enabled |-> FALSE,
             rainbow_hue |-> 0,
             rainbow_hue_step_per_pixel |-> 30,
             arrow_length |-> 20,
             arrow_angle |-> 30]
  /\ pre = self
  /\ last = [op |-> "new", arg |-> <<>>, ret |-> <<>>, again |-> FALSE,
             before |-> <<>>]

\* the call now returning: method, argument, return value, and self as it
\* was; again says that the call before it was the same method with the same
\* argument, and before is what that call returned
Returns(op, arg, ret) ==
  LET again == last.op = op /\ last.arg = arg
  IN  /\ last' = [op |-> op, arg |-> arg, ret |-> ret, again |-> again,
                  before |-> IF again THEN last.ret ELSE <<>>]
      /\ pre' = self

\* dirty_tracker.mark_full(); needs_redraw = true
MarkFull(s) == [s EXCEPT !.dirty_full = TRUE, !.needs_redraw = TRUE]

----------------------------------------------------------------------------
(* Tool selection: tool_controls.rs 8-26 *)

\* faulty variant: the in-progress gesture survives the tool change
set_tool_override_keeping_gesture(tool) ==
  IF self.tool_override = tool
  THEN self' = self /\ Returns("set_tool_override", tool, FALSE)
  ELSE /\ self' = MarkFull([self EXCEPT !.tool_override = tool])
       /\ Returns("set_tool_override", tool, TRUE)

\* faulty variant: no early return on an equal value
set_tool_override_unguarded(tool) ==
  /\ self' = MarkFull([self EXCEPT
                 !.tool_override = tool,
                 !.state = IF self.state.kind \notin {"Idle", "TextInput"}
                           THEN Idle ELSE self.state])
  /\ Returns("set_tool_override", tool, TRUE)

\* faulty variant: a tool change ends text entry as well
set_tool_override_resetting_always(tool) ==
  IF self.tool_override = tool
  THEN self' = self /\ Returns("set_tool_override", tool, FALSE)
  ELSE /\ self' = MarkFull([self EXCEPT !.tool_override = tool, !.state = Idle])
       /\ Returns("set_tool_override", tool, TRUE)

set_tool_override(tool) ==
  IF self.tool_override = tool
  THEN self' = self /\ Returns("set_tool_override", tool, FALSE)
  ELSE /\ self' = MarkFull([self EXCEPT
                      !.tool_override = tool,
                      !.state = IF self.state.kind \notin {"Idle", "TextInput"}
                                THEN Idle ELSE self.state])
       /\ Returns("set_tool_override", tool, TRUE)

----------------------------------------------------------------------------
(* The hosting event loop: pointer and key events that drive the gesture,  *)
(* and the renderer that consumes the invalidation.                        *)

Coords == {<<0, 0>>, <<3, 4>>, <<3, 0>>}

FreehandTools == {"Pen", "Marker", "Eraser"}

\* pointer down: a gesture begins with the tool active now
on_mouse_press(p) ==
  /\ self.state.kind = "Idle"
  /\ self' = [self EXCEPT !.state = Drawing(active_tool, p[1], p[2], <<p>>),
                          !.needs_redraw = TRUE]
  /\ Returns("on_mouse_press", p, <<>>)

\* pointer move: freehand-style tools accumulate the point
on_mouse_motion(p) ==
  /\ self.state.kind = "Drawing"
  /\ self.state.tool \in FreehandTools
  /\ Len(self.state.points) < MaxPoints
  /\ self' = [self EXCEPT !.state.points = Append(@, p), !.needs_redraw = TRUE]
  /\ Returns("on_mouse_motion", p, <<>>)

\* pointer up: the gesture is committed
on_mouse_release ==
  /\ self.state.kind = "Drawing"
  /\ self' = MarkFull([self EXCEPT !.state = Idle])
  /\ Returns("on_mouse_release", <<>>, <<>>)

\* entering text mode, typing, leaving it
enter_text_mode(p) ==
  /\ self.state.kind = "Idle"
  /\ self' = [self EXCEPT !.state = TextInput(p[1], p[2], ""), !.needs_redraw = TRUE]
  /\ Returns("enter_text_mode", p, <<>>)

type_text ==
  /\ self.state.kind = "TextInput"
  /\ self.state.buffer = ""
  /\ self' = [self EXCEPT !.state.buffer = "a", !.needs_redraw = TRUE]
  /\ Returns("type_text", "a", <<>>)

leave_text_mode ==
  /\ self.state.kind = "TextInput"
  /\ self' = MarkFull([self EXCEPT !.state = Idle])
  /\ Returns("leave_text_mode", <<>>, <<>>)

\* the renderer repaints and takes the invalidation
render_frame ==
  /\ self.dirty_full \/ self.needs_redraw
  /\ self' = [self EXCEPT !.dirty_full = FALSE, !.needs_redraw = FALSE]
  /\ Returns("render_frame", <<>>, <<>>)

Gesture ==
  \/ \E p \in Coords : on_mouse_press(p)
  \/ \E p \in Coords : on_mouse_motion(p)
  \/ on_mouse_release
  \/ \E p \in Coords : enter_text_mode(p)
  \/ type_text
  \/ leave_text_mode

----------------------------------------------------------------------------
(* Tool selection against the gesture *)

NextTool ==
  \/ \E tool \in OptTools : set_tool_override(tool)
  \/ Gesture
  \/ render_frame

SpecTool == Init /\ [][NextTool]_vars

\* C1: whenever set_tool_override is called in a Drawing state (any captured
\* tool, any accumulated points) with a value different from the current
\* override, it returns true, the override becomes the new value and the
\* drawing state becomes Idle.
C1_ToolChangeResetsDrawing ==
  (/\ last.op = "set_tool_override"
   /\ pre.state.kind = "Drawing"
   /\ last.arg # pre.tool_override)
  => (/\ last.ret = TRUE
      /\ self.tool_override = last.arg
      /\ self.state = Idle)

C1_Witness ==
  /\ last.op = "set_tool_override"
  /\ pre.state.kind = "Drawing"
  /\ pre.state.tool = "Marker"
  /\ Len(pre.state.points) = 2
  /\ last.arg = "Rect"
  /\ pre.tool_override = "Marker"
  /\ self.state = Idle

\* C2: set_tool_override called with a value equal to the current override
\* (None included) returns false and changes nothing: not the drawing state
\* (even a Drawing one), nor the override, the dirty tracker or needs_redraw.
C2_SameOverrideIsNoOp ==
  (/\ last.op = "set_tool_override"
   /\ last.arg = pre.tool_override)
  => (/\ last.ret = FALSE
      /\ self = pre)

C2_Witness ==
  /\ last.op = "set_tool_override"
  /\ last.arg = pre.tool_override
  /\ last.arg = NoTool
  /\ pre.state.kind = "Drawing"
  /\ ~pre.dirty_full
  /\ ~pre.needs_redraw

----------------------------------------------------------------------------
(* Style state: tool_controls.rs 29-124, 159-166.  Each setter is a        *)
(* function from (self, argument) to the new self and the returned bool;   *)
(* the action of the same name applies it.                                 *)

Result(s, ret) == [s |-> s, ret |-> ret]

\* the highlighter's colour follows the base colour
sync_highlight_color(s) == [s EXCEPT !.highlight_color = s.current_color]

marker_opacity_set(s, opacity) ==
  LET clamped == FClamp(opacity, MIN_MARKER_OPACITY, MAX_MARKER_OPACITY)
  IN  IF WithinEpsilon(clamped, s.marker_opacity)
      THEN Result(s, FALSE)
      ELSE Result(MarkFull([s EXCEPT !.marker_opacity = clamped]), TRUE)

color_set(s, color) ==
  IF s.current_color = color
  THEN Result(s, FALSE)
  ELSE Result(sync_highlight_color(MarkFull([s EXCEPT !.current_color = color])), TRUE)

\* faulty variant: the argument is stored as given
thickness_set_unclamped(s, thickness) ==
  IF WithinEpsilon(thickness, s.current_thickness)
  THEN Result(s, FALSE)
  ELSE Result(MarkFull([s EXCEPT !.current_thickness = thickness]), TRUE)

thickness_set(s, thickness) ==
  LET clamped == FClamp(thickness, MIN_STROKE_THICKNESS, MAX_STROKE_THICKNESS)
  IN  IF WithinEpsilon(clamped, s.current_thickness)
      THEN Result(s, FALSE)
      ELSE Result(MarkFull([s EXCEPT !.current_thickness = clamped]), TRUE)

eraser_size_set(s, size) ==
  LET clamped == FClamp(size, MIN_STROKE_THICKNESS, MAX_STROKE_THICKNESS)
  IN  IF WithinEpsilon(clamped, s.eraser_size)
      THEN Result(s, FALSE)
      ELSE Result(MarkFull([s EXCEPT !.eraser_size = clamped]), TRUE)

font_descriptor_set(s, descriptor) ==
  IF s.font_descriptor = descriptor
  THEN Result(s, FALSE)
  ELSE Result(MarkFull([s EXCEPT !.font_descriptor = descriptor]), TRUE)

font_size_set(s, size) ==
  LET clamped == FClamp(size, MIN_FONT_SIZE, MAX_FONT_SIZE)
  IN  IF WithinEpsilon(clamped, s.current_font_size)
      THEN Result(s, FALSE)
      ELSE Result(MarkFull([s EXCEPT !.current_font_size = clamped]), TRUE)

\* sets needs_redraw only: the dirty tracker is not marked
fill_enabled_set(s, enabled) ==
  IF s.fill_enabled = enabled
  THEN Result(s, FALSE)
  ELSE Result([s EXCEPT !.fill_enabled = enabled, !.needs_redraw = TRUE], TRUE)

set_marker_opacity(opacity) ==
  LET r == marker_opacity_set(self, opacity)
  IN  self' = r.s /\ Returns("set_marker_opacity", opacity, r.ret)

set_color(color) ==
  LET r == color_set(self, color)
  IN  self' = r.s /\ Returns("set_color", color, r.ret)

set_thickness(thickness) ==
  LET r == thickness_set(self, thickness)
  IN  self' = r.s /\ Returns("set_thickness", thickness, r.ret)

set_eraser_size(size) ==
  LET r == eraser_size_set(self, size)
  IN  self' = r.s /\ Returns("set_eraser_size", size, r.ret)

set_font_descriptor(descriptor) ==
  LET r == font_descriptor_set(self, descriptor)
  IN  self' = r.s /\ Returns("set_font_descriptor", descriptor, r.ret)

set_font_size(size) ==
  LET r == font_size_set(self, size)
  IN  self' = r.s /\ Returns("set_font_size", size, r.ret)

set_fill_enabled(enabled) ==
  LET r == fill_enabled_set(self, enabled)
  IN  self' = r.s /\ Returns("set_fill_enabled", enabled, r.ret)

\* faulty variant: the thickness slot whatever the active tool
set_thickness_for_active_tool_ignoring_tool(value) ==
  LET r == thickness_set(self, value)
  IN  self' = r.s /\ Returns("set_thickness_for_active_tool", value, r.ret)

set_thickness_for_active_tool(value) ==
  LET r == IF active_tool = "Eraser"
           THEN eraser_size_set(self, value)
           ELSE thickness_set(self, value)
  IN  self' = r.s /\ Returns("set_thickness_for_active_tool", value, r.ret)

nudge_thickness_for_active_tool(delta) ==
  LET r == IF active_tool = "Eraser"
           THEN eraser_size_set(self, FAdd(self.eraser_size, delta))
           ELSE thickness_set(self, FAdd(self.current_thickness, delta))
  IN  self' = r.s /\ Returns("nudge_thickness_for_active_tool", delta, r.ret)

----------------------------------------------------------------------------
(* Style setters under arbitrary arguments *)

SizeInputs ==
  {NaN, Fx(0), Fx(25), Fx(25) + F64_EPSILON, Fx(50), Fx(51)}

NudgeInputs == {NaN, -Fx(49), Fx(49)}

OpacityInputs ==
  {NaN, Fx(0), Fx(50), Fx(50) + 1, Fx(50) + F64_EPSILON, Fx(100)}

FontSizeInputs == {NaN, Fx(0), Fx(12), Fx(100)}

\* a colour with alpha 0
Clear == Color(0, 0, 60, Fx(0))

ColorInputs == {Red, Clear}

FontInputs == {"Sans", "Mono"}

\* the two size slots and the dispatch on the active tool
NextSize ==
  \/ \E v \in SizeInputs : set_thickness(v)
  \/ \E v \in SizeInputs : set_eraser_size(v)
  \/ \E v \in SizeInputs : set_thickness_for_active_tool(v)
  \/ \E d \in NudgeInputs : nudge_thickness_for_active_tool(d)
  \/ \E tool \in {NoTool, "Eraser", "Line"} : set_tool_override(tool)
  \/ render_frame

SpecSize == Init /\ [][NextSize]_vars

\* every style setter
NextStyle ==
  \/ \E v \in {NaN, Fx(25), Fx(51)} : set_thickness(v)
  \/ \E v \in {NaN, Fx(25), Fx(51)} : set_eraser_size(v)
  \/ \E v \in OpacityInputs : set_marker_opacity(v)
  \/ \E v \in FontSizeInputs : set_font_size(v)
  \/ \E d \in FontInputs : set_font_descriptor(d)
  \/ \E c \in ColorInputs : set_color(c)
  \/ \E b \in BOOLEAN : set_fill_enabled(b)
  \/ render_frame

SpecStyle == Init /\ [][NextStyle]_vars

----------------------------------------------------------------------------
(* What a style setter is asked to store, and what it has stored *)

StyleSetters ==
  {"set_thickness", "set_eraser_size", "set_marker_opacity", "set_font_size",
   "set_font_descriptor", "set_color", "set_fill_enabled"}

ClampingSetters ==
  {"set_thickness", "set_eraser_size", "set_marker_opacity", "set_font_size"}

\* the field a setter writes
Stored(s, op) ==
  CASE op = "set_thickness" -> s.current_thickness
    [] op = "set_eraser_size" -> s.eraser_size
    [] op = "set_marker_opacity" -> s.marker_opacity
    [] op = "set_font_size" -> s.current_font_size
    [] op = "set_font_descriptor" -> s.font_descriptor
    [] op = "set_color" -> s.current_color
    [] op = "set_fill_enabled" -> s.fill_enabled

\* the argument clamped into the setter's legal interval
Proposed(op, arg) ==
  CASE op \in {"set_thickness", "set_eraser_size"} ->
         FClamp(arg, MIN_STROKE_THICKNESS, MAX_STROKE_THICKNESS)
    [] op = "set_marker_opacity" -> FClamp(arg, MIN_MARKER_OPACITY, MAX_MARKER_OPACITY)
    [] op = "set_font_size" -> FClamp(arg, MIN_FONT_SIZE, MAX_FONT_SIZE)
    [] OTHER -> arg

\* the clamped value differs from the stored one: beyond the tolerance for
\* the numeric setters, by value for the others
Differs(s, op, arg) ==
  IF op \in ClampingSetters
  THEN ~WithinEpsilon(Proposed(op, arg), Stored(s, op))
  ELSE Proposed(op, arg) # Stored(s, op)

InRange(x, lo, hi) == FLe(lo, x) /\ FLe(x, hi)

\* C3: for every style setter, a call whose clamped value differs from the
\* stored value mutates the field, marks the invalidation tracker fully
\* dirty, sets needs_redraw and returns true.
C3_ChangeMarksDirtyAndRedraw ==
  (/\ last.op \in StyleSetters
   /\ Differs(pre, last.op, last.arg))
  => (/\ last.ret = TRUE
      /\ Stored(self, last.op) = Proposed(last.op, last.arg)
      /\ self.dirty_full
      /\ self.needs_redraw)

\* C4, first half: a call whose clamped value equals the stored value
\* returns false and changes nothing.
C4_EqualValueIsNoOp ==
  (/\ last.op \in StyleSetters
   /\ ~Differs(pre, last.op, last.arg))
  => (/\ last.ret = FALSE
      /\ self = pre)

\* C4, second half, as a step: the same setter called again with the same
\* argument, after a call whose clamped value differed from the stored one.
C4_RepeatedCall ==
  /\ last.op \in StyleSetters
  /\ Differs(pre, last.op, last.arg)
  /\ last'.op = last.op
  /\ last'.arg = last.arg

\* C4: for every style setter, a call whose clamped value equals the stored
\* value returns false and performs no mutation, no invalidation and no
\* needs_redraw change; the same setter called twice in a row with the same
\* argument returns true then false, and the second call leaves the dirty
\* tracker and needs_redraw as the first left them.
C4_SettersAreIdempotent ==
  [][/\ C4_EqualValueIsNoOp'
     /\ C4_RepeatedCall =>
          (/\ last.ret = TRUE
           /\ last'.ret = FALSE
           /\ self'.dirty_full = self.dirty_full
           /\ self'.needs_redraw = self.needs_redraw)]_vars

\* C5: starting from in-range values, after any sequence of size, opacity
\* and font-size calls with arbitrary arguments, current_thickness and
\* eraser_size stay within [MIN_STROKE_THICKNESS, MAX_STROKE_THICKNESS],
\* marker_opacity within [0.05, 0.9] and current_font_size within [8, 72].
C5_StyleValuesStayInRange ==
  /\ InRange(self.current_thickness, MIN_STROKE_THICKNESS, MAX_STROKE_THICKNESS)
  /\ InRange(self.eraser_size, MIN_STROKE_THICKNESS, MAX_STROKE_THICKNESS)
  /\ InRange(self.marker_opacity, MIN_MARKER_OPACITY, MAX_MARKER_OPACITY)
  /\ InRange(self.current_font_size, MIN_FONT_SIZE, MAX_FONT_SIZE)

\* C6: for every input v, after set_thickness(v) the stored
\* current_thickness is v when MIN <= v <= MAX, MIN when v < MIN and MAX when
\* v > MAX; likewise set_eraser_size(v) and eraser_size.
C6_SizeSettersSaturate ==
  last.op \in {"set_thickness", "set_eraser_size"}
  => LET v == last.arg
         stored == Stored(self, last.op)
     IN  /\ InRange(v, MIN_STROKE_THICKNESS, MAX_STROKE_THICKNESS) => stored = v
         /\ FLt(v, MIN_STROKE_THICKNESS) => stored = MIN_STROKE_THICKNESS
         /\ FLt(MAX_STROKE_THICKNESS, v) => stored = MAX_STROKE_THICKNESS

\* an in-range value one EPSILON above the stored one is stored exactly
C6_Witness ==
  /\ last.op = "set_thickness"
  /\ pre.current_thickness = Fx(25)
  /\ last.arg = Fx(25) + F64_EPSILON
  /\ self.current_thickness = last.arg
  /\ last.ret = TRUE

----------------------------------------------------------------------------
(* Rainbow colorizer: tool_controls.rs 213-283 *)

Abs(n) == IF n < 0 THEN -n ELSE n

\* Rust's `%`: the remainder takes the sign of the dividend
Rem(a, b) == IF a >= 0 THEN a % b ELSE -((-a) % b)

\* Rust's integer `/`: truncates toward zero
Div(a, b) == IF a >= 0 THEN a \div b ELSE -((-a) \div b)

\* f64::sqrt on the squares the model's coordinates produce
Sqrt(n) == CHOOSE r \in 0..n : r * r <= n /\ n < (r + 1) * (r + 1)

\* Color::from_hsv(h, 1.0, 1.0, 1.0): the sector conversion of a hue in degrees
from_hsv(h) ==
  LET x == 60 - Abs(Rem(h, 120) - 60)
  IN  IF h < 60 THEN Color(60, x, 0, Fx(100))
      ELSE IF h < 120 THEN Color(x, 60, 0, Fx(100))
      ELSE IF h < 180 THEN Color(0, 60, x, Fx(100))
      ELSE IF h < 240 THEN Color(0, x, 60, Fx(100))
      ELSE IF h < 300 THEN Color(x, 0, 60, Fx(100))
      ELSE Color(60, 0, x, Fx(100))

\* faulty variant: the hue is reset on every toggle
toggle_rainbow_mode_always_resetting ==
  /\ self' = MarkFull([self EXCEPT !.rainbow_mode_enabled = ~@, !.rainbow_hue = 0])
  /\ Returns("toggle_rainbow_mode", <<>>, TRUE)

\* faulty variant: switching the coloring mode abandons the gesture
toggle_rainbow_mode_ending_gesture ==
  LET enabled == ~self.rainbow_mode_enabled
  IN  /\ self' = MarkFull([self EXCEPT
                     !.rainbow_mode_enabled = enabled,
                     !.rainbow_hue = IF enabled THEN 0 ELSE @,
                     !.state = Idle])
      /\ Returns("toggle_rainbow_mode", <<>>, TRUE)

toggle_rainbow_mode ==
  LET enabled == ~self.rainbow_mode_enabled
  IN  /\ self' = MarkFull([self EXCEPT
                     !.rainbow_mode_enabled = enabled,
                     !.rainbow_hue = IF enabled THEN 0 ELSE @])
      /\ Returns("toggle_rainbow_mode", <<>>, TRUE)

\* faulty variant: the distance is counted from the persistent hue
color_at_distance_from_hue(s, distance) ==
  from_hsv(Rem(s.rainbow_hue + distance * s.rainbow_hue_step_per_pixel, 360))

\* rainbow_color_at_distance as a function of the state it reads
color_at_distance(s, distance) ==
  from_hsv(Rem(distance * s.rainbow_hue_step_per_pixel, 360))

rainbow_color_at_distance(distance) ==
  /\ self' = self
  /\ Returns("rainbow_color_at_distance", distance, color_at_distance(self, distance))

get_rainbow_hue ==
  /\ self' = self
  /\ Returns("get_rainbow_hue", <<>>, self.rainbow_hue)

\* rainbow_color_from_hue reads no field
color_from_hue(hue) == from_hsv(Rem(hue, 360))

rainbow_color_from_hue(hue) ==
  /\ self' = self
  /\ Returns("rainbow_color_from_hue", hue, color_from_hue(hue))

advance_rainbow_hue(distance) ==
  /\ self' = [self EXCEPT !.rainbow_hue =
                Rem(@ + distance * self.rainbow_hue_step_per_pixel, 360)]
  /\ Returns("advance_rainbow_hue", distance, <<>>)

\* the distance between points[i - 1] and points[i]
SegmentLength(points, i) ==
  LET dx == points[i][1] - points[i - 1][1]
      dy == points[i][2] - points[i - 1][2]
  IN  Sqrt(dx * dx + dy * dy)

RECURSIVE CumulativeDistance(_, _)
\* cumulative_distance once the loop has handled points[i]
CumulativeDistance(points, i) ==
  IF i <= 1 THEN 0
  ELSE CumulativeDistance(points, i - 1) + SegmentLength(points, i)

\* faulty variant: each hue counts the last segment only, not the path so far
rainbow_colors_for_points_per_segment(s, points) ==
  IF points = <<>> THEN <<>>
  ELSE [i \in 1..Len(points) |->
          IF i = 1 THEN color_from_hue(s.rainbow_hue)
          ELSE color_from_hue(s.rainbow_hue
                 + SegmentLength(points, i) * s.rainbow_hue_step_per_pixel)]

\* generate_rainbow_colors_for_points as a function of the state it reads
rainbow_colors_for_points(s, points) ==
  IF points = <<>> THEN <<>>
  ELSE [i \in 1..Len(points) |->
          IF i = 1 THEN color_from_hue(s.rainbow_hue)
          ELSE color_from_hue(s.rainbow_hue
                 + CumulativeDistance(points, i) * s.rainbow_hue_step_per_pixel)]

\* faulty variant: the preview advances the persistent hue
generate_rainbow_colors_for_points_advancing(points) ==
  /\ self' = [self EXCEPT !.rainbow_hue =
                Rem(@ + CumulativeDistance(points, Len(points))
                          * self.rainbow_hue_step_per_pixel, 360)]
  /\ Returns("generate_rainbow_colors_for_points", points,
             rainbow_colors_for_points(self, points))

generate_rainbow_colors_for_points(points) ==
  /\ self' = self
  /\ Returns("generate_rainbow_colors_for_points", points,
             rainbow_colors_for_points(self, points))

is_rainbow_mode_enabled ==
  /\ self' = self
  /\ Returns("is_rainbow_mode_enabled", <<>>, self.rainbow_mode_enabled)

----------------------------------------------------------------------------
(* Provisional shapes: render.rs *)

\* f64 `*` of two values in the opacity's unit (Fx(100) = 1.0)
FMul(a, b) == IF a = NaN \/ b = NaN THEN NaN ELSE (a * b) \div Fx(100)

\* render.rs 255-262
marker_color(s) ==
  [s.current_color EXCEPT
     !.a = FClamp(FMul(s.current_color.a, s.marker_opacity),
                  MIN_MARKER_OPACITY, MAX_MARKER_OPACITY)]

\* util::ellipse_bounds: centre and radii from two opposite corners
ellipse_bounds(x1, y1, x2, y2) ==
  [cx |-> Div(x1 + x2, 2), cy |-> Div(y1 + y2, 2),
   rx |-> Div(Abs(x2 - x1), 2), ry |-> Div(Abs(y2 - y1), 2)]

\* faulty variant: the endpoint hues start at 0, not at the persistent hue
EndpointColors_from_zero(s, distance) ==
  IF s.rainbow_mode_enabled
  THEN <<Some(color_from_hue(0)),
         Some(color_from_hue(distance * s.rainbow_hue_step_per_pixel))>>
  ELSE <<None, None>>

\* (start_color, end_color) of a two-anchor shape whose characteristic
\* distance is `distance`
EndpointColors(s, distance) ==
  IF s.rainbow_mode_enabled
  THEN LET start_hue == s.rainbow_hue
           end_hue == start_hue + distance * s.rainbow_hue_step_per_pixel
       IN  <<Some(color_from_hue(start_hue)), Some(color_from_hue(end_hue))>>
  ELSE <<None, None>>

\* get_provisional_shape as a function of the state it reads: Option<Shape>
provisional_shape(s, current_x, current_y) ==
  IF s.state.kind # "Drawing" THEN None
  ELSE
    LET tool == s.state.tool
        start_x == s.state.start_x
        start_y == s.state.start_y
        points == s.state.points
    IN
    CASE tool = "Pen" ->
           Some([shape |-> "Freehand", points |-> points,
                 color |-> s.current_color, thick |-> s.current_thickness,
                 per_point_colors |-> None])
      [] tool = "Line" ->
           LET dx == current_x - start_x
               dy == current_y - start_y
               c == EndpointColors(s, Sqrt(dx * dx + dy * dy))
           IN  Some([shape |-> "Line", x1 |-> start_x, y1 |-> start_y,
                     x2 |-> current_x, y2 |-> current_y,
                     color |-> s.current_color, thick |-> s.current_thickness,
                     start_color |-> c[1], end_color |-> c[2]])
      [] tool = "Rect" ->
           LET x == IF current_x >= start_x THEN start_x ELSE current_x
               w == IF current_x >= start_x THEN current_x - start_x
                                            ELSE start_x - current_x
               y == IF current_y >= start_y THEN start_y ELSE current_y
               h == IF current_y >= start_y THEN current_y - start_y
                                            ELSE start_y - current_y
               c == EndpointColors(s, Sqrt(w * w + h * h))
           IN  Some([shape |-> "Rect", x |-> x, y |-> y, w |-> w, h |-> h,
                     fill |-> s.fill_enabled,
                     color |-> s.current_color, thick |-> s.current_thickness,
                     start_color |-> c[1], end_color |-> c[2]])
      [] tool = "Ellipse" ->
           LET e == ellipse_bounds(start_x, start_y, current_x, current_y)
               c == EndpointColors(s, e.rx * 2)
           IN  Some([shape |-> "Ellipse", cx |-> e.cx, cy |-> e.cy,
                     rx |-> e.rx, ry |-> e.ry, fill |-> s.fill_enabled,
                     color |-> s.current_color, thick |-> s.current_thickness,
                     start_color |-> c[1], end_color |-> c[2]])
      [] tool = "Arrow" ->
           LET dx == current_x - start_x
               dy == current_y - start_y
               c == EndpointColors(s, Sqrt(dx * dx + dy * dy))
           IN  Some([shape |-> "Arrow", x1 |-> start_x, y1 |-> start_y,
                     x2 |-> current_x, y2 |-> current_y,
                     color |-> s.current_color, thick |-> s.current_thickness,
                     arrow_length |-> s.arrow_length,
                     arrow_angle |-> s.arrow_angle,
                     start_color |-> c[1], end_color |-> c[2]])
      [] tool = "Marker" ->
           Some([shape |-> "MarkerStroke", points |-> points,
                 color |-> marker_color(s), thick |-> s.current_thickness,
                 per_point_colors |-> None])
      [] tool \in {"Eraser", "Highlight", "Select"} -> None

\* faulty variant: the rectangle keeps the drag direction (the start point
\* as corner, signed width and height)
get_provisional_shape_unnormalised(current_x, current_y) ==
  LET shape == provisional_shape(self, current_x, current_y)
      raw == IF shape # None /\ shape[1].shape = "Rect"
             THEN Some([shape[1] EXCEPT
                          !.x = self.state.start_x,
                          !.y = self.state.start_y,
                          !.w = current_x - self.state.start_x,
                          !.h = current_y - self.state.start_y])
             ELSE shape
  IN  /\ self' = self
      /\ Returns("get_provisional_shape", <<current_x, current_y>>, raw)

\* faulty variant: the preview is built only while a tool override is set
get_provisional_shape_by_override(current_x, current_y) ==
  /\ self' = self
  /\ Returns("get_provisional_shape", <<current_x, current_y>>,
             IF self.tool_override = NoTool THEN None
             ELSE provisional_shape(self, current_x, current_y))

get_provisional_shape(current_x, current_y) ==
  /\ self' = self
  /\ Returns("get_provisional_shape", <<current_x, current_y>>,
             provisional_shape(self, current_x, current_y))

\* the eraser's preview colour
EraserPreviewColor == Color(60, 60, 60, Fx(35))

\* what render_provisional_shape returns, and the call it makes on the
\* renderer (none when it returns false)
Rendered(ret, call) == [ret |-> ret, call |-> call]

\* faulty variant: every tool takes the owned path, so nothing is rendered
\* where get_provisional_shape has no shape
provisional_render_owned_only(s, current_x, current_y) ==
  LET shape == provisional_shape(s, current_x, current_y)
  IN  IF shape # None
      THEN Rendered(TRUE, Some([fn |-> "render_shape", shape |-> shape[1]]))
      ELSE Rendered(FALSE, None)

provisional_render(s, current_x, current_y) ==
  IF s.state.kind # "Drawing" THEN Rendered(FALSE, None)
  ELSE
    LET tool == s.state.tool
        points == s.state.points
    IN
    CASE tool = "Pen" ->
           Rendered(TRUE,
             Some([fn |-> "render_freehand_borrowed", points |-> points,
                   color |-> s.current_color, thick |-> s.current_thickness,
                   colors |-> IF s.rainbow_mode_enabled
                              THEN Some(rainbow_colors_for_points(s, points))
                              ELSE None]))
      [] tool = "Highlight" -> Rendered(FALSE, None)
      [] tool = "Marker" ->
           Rendered(TRUE,
             Some([fn |-> "render_marker_stroke_borrowed", points |-> points,
                   color |-> marker_color(s), thick |-> s.current_thickness,
                   colors |->
                     IF s.rainbow_mode_enabled
                     THEN LET cs == rainbow_colors_for_points(s, points)
                          IN  Some([i \in 1..Len(cs) |->
                                      [cs[i] EXCEPT !.a = s.marker_opacity]])
                     ELSE None]))
      [] tool = "Eraser" ->
           Rendered(TRUE,
             Some([fn |-> "render_freehand_borrowed", points |-> points,
                   color |-> EraserPreviewColor, thick |-> s.eraser_size,
                   colors |-> None]))
      [] OTHER ->
           LET shape == provisional_shape(s, current_x, current_y)
           IN  IF shape # None
               THEN Rendered(TRUE, Some([fn |-> "render_shape", shape |-> shape[1]]))
               ELSE Rendered(FALSE, None)

render_provisional_shape(current_x, current_y) ==
  /\ self' = self
  /\ Returns("render_provisional_shape", <<current_x, current_y>>,
             provisional_render(self, current_x, current_y))

----------------------------------------------------------------------------
(* The rainbow colorizer against gestures and previews *)

\* distances travelled, in pixels; 12 pixels are a full turn of the hue
Distances == {0, 3, 12}

\* a distance below zero
NegativeDistances == {-3}

Pointer ==
  \/ \E p \in Coords : on_mouse_press(p)
  \/ \E p \in Coords : on_mouse_motion(p)
  \/ on_mouse_release

\* point sequences handed to the colorizer directly
PointSeqs ==
  {<<>>, <<<<0, 0>>>>, <<<<0, 0>>, <<3, 4>>>>, <<<<0, 0>>, <<3, 4>>, <<3, 4>>>>,
   <<<<3, 0>>, <<0, 0>>, <<3, 4>>>>}

NextRainbow ==
  \/ toggle_rainbow_mode
  \/ \E d \in Distances : advance_rainbow_hue(d)
  \/ \E d \in {0, 3} : rainbow_color_at_distance(d)
  \/ \E h \in {90, 450} : rainbow_color_from_hue(h)
  \/ \E points \in PointSeqs : generate_rainbow_colors_for_points(points)
  \/ \E p \in {<<0, 0>>, <<3, 4>>} : render_provisional_shape(p[1], p[2])
  \/ \E tool \in {NoTool, "Marker", "Rect"} : set_tool_override(tool)
  \/ Pointer
  \/ \E d \in NegativeDistances : advance_rainbow_hue(d)

SpecRainbow == Init /\ [][NextRainbow]_vars

\* C7, as stated: for every starting hue and every distance d, after
\* advance_rainbow_hue(d) the color of rainbow_color_at_distance(0) equals
\* rainbow_color_from_hue of the post-advance rainbow_hue.
C7_DistanceZeroColorFollowsHue ==
  last.op = "advance_rainbow_hue"
  => color_at_distance(self, 0) = color_from_hue(self.rainbow_hue)

\* C7, amended: after advance_rainbow_hue(d) the stored hue is
\* (previous hue + d * step) % 360, and rainbow_color_at_distance(0), which
\* does not read rainbow_hue, is the color of hue 0: for a post-advance hue
\* in [0, 360) it equals rainbow_color_from_hue(rainbow_hue) exactly when
\* that hue is 0.
C7_HueAdvancesAndDistanceZeroIsHueZero ==
  last.op = "advance_rainbow_hue"
  => /\ self.rainbow_hue =
          Rem(pre.rainbow_hue + last.arg * pre.rainbow_hue_step_per_pixel, 360)
     /\ color_at_distance(self, 0) = color_from_hue(0)
     /\ (self.rainbow_hue >= 0 /\ self.rainbow_hue < 360)
          => ((color_at_distance(self, 0) = color_from_hue(self.rainbow_hue))
                <=> self.rainbow_hue = 0)

\* the hue has wrapped past 360 to 90, and distance 0 still gives hue 0's color
C7_Witness ==
  /\ last.op = "advance_rainbow_hue"
  /\ last.arg = 12
  /\ pre.rainbow_hue = 90
  /\ self.rainbow_hue = 90
  /\ color_at_distance(self, 0) = color_from_hue(0)
  /\ color_at_distance(self, 0) # color_from_hue(self.rainbow_hue)

\* C8: in every state reachable by toggle_rainbow_mode and
\* advance_rainbow_hue(d) calls, for every distance d (positive, zero or
\* negative) and a fixed positive step, 0 <= rainbow_hue < 360.
C8_HueWithinCircle ==
  /\ self.rainbow_hue >= 0
  /\ self.rainbow_hue < 360

\* C9: toggle_rainbow_mode flips rainbow_mode_enabled; off-to-on sets
\* rainbow_hue to 0, on-to-off keeps it, and no call other than
\* advance_rainbow_hue changes it in between.
C9_ToggleResetsHueOnlyWhenEnabling ==
  /\ last.op = "toggle_rainbow_mode"
       => /\ self.rainbow_mode_enabled = ~pre.rainbow_mode_enabled
          /\ self.rainbow_mode_enabled => self.rainbow_hue = 0
          /\ ~self.rainbow_mode_enabled => self.rainbow_hue = pre.rainbow_hue
  /\ last.op \notin {"toggle_rainbow_mode", "advance_rainbow_hue"}
       => /\ self.rainbow_hue = pre.rainbow_hue
          /\ self.rainbow_mode_enabled = pre.rainbow_mode_enabled

\* rainbow mode goes off and the advanced hue survives
C9_Witness ==
  /\ last.op = "toggle_rainbow_mode"
  /\ pre.rainbow_mode_enabled
  /\ ~self.rainbow_mode_enabled
  /\ pre.rainbow_hue = 90
  /\ self.rainbow_hue = 90

PreviewCalls == {"generate_rainbow_colors_for_points", "render_provisional_shape"}

\* C10: generate_rainbow_colors_for_points changes neither rainbow_hue nor
\* any other state, and called again with the same points it returns the
\* same colors; likewise render_provisional_shape, for Pen and Marker in
\* rainbow mode too, so repeated previews never advance the hue.
C10_PreviewIsPure ==
  last.op \in PreviewCalls
  => /\ self = pre
     /\ last.again => last.ret = last.before

\* a Marker stroke previewed twice in rainbow mode at an advanced hue
C10_Witness ==
  /\ last.op = "render_provisional_shape"
  /\ last.again
  /\ self.state.kind = "Drawing"
  /\ self.state.tool = "Marker"
  /\ Len(self.state.points) = 2
  /\ self.state.points[1] # self.state.points[2]
  /\ self.rainbow_mode_enabled
  /\ self.rainbow_hue = 90
  /\ last.ret.call # None
  /\ last.ret.call[1].colors # None
  /\ last.ret = last.before

\* the Euclidean length of the path from point 1 to point i
PathLength(points, i) ==
  LET Euclid(p, q) ==
        CHOOSE r \in 0..12 :
          r * r = (q[1] - p[1]) * (q[1] - p[1]) + (q[2] - p[2]) * (q[2] - p[2])
      Upto[k \in 1..i] ==
        IF k = 1 THEN 0 ELSE Upto[k - 1] + Euclid(points[k - 1], points[k])
  IN  Upto[i]

\* C11: generate_rainbow_colors_for_points returns one color per point
\* (none for no points); the first color is that of the current rainbow_hue
\* and the i-th that of hue (rainbow_hue + step * length of the path from
\* point 0 to point i) % 360.
C11_OneColorPerPointByPathLength ==
  last.op = "generate_rainbow_colors_for_points"
  => LET points == last.arg
         colors == last.ret
     IN  /\ Len(colors) = Len(points)
         /\ points = <<>> => colors = <<>>
         /\ points # <<>> => colors[1] = from_hsv(Rem(pre.rainbow_hue, 360))
         /\ \A i \in 1..Len(points) :
              colors[i] = from_hsv(Rem(pre.rainbow_hue
                + pre.rainbow_hue_step_per_pixel * PathLength(points, i), 360))

\* the path (0,0), (3,4), (3,4): lengths 0, 5, 5, so hues 0, 150, 150 at 30
\* degrees per pixel
C11_Witness ==
  /\ last.op = "generate_rainbow_colors_for_points"
  /\ last.arg = <<<<0, 0>>, <<3, 4>>, <<3, 4>>>>
  /\ pre.rainbow_hue = 0
  /\ last.ret = <<from_hsv(0), from_hsv(150), from_hsv(150)>>
  /\ from_hsv(150) # from_hsv(0)

----------------------------------------------------------------------------
(* The provisional shape builder against gestures of every tool *)

\* pointer positions a preview is asked for
PreviewAt == Coords \cup {<<0, 4>>}

NextPreview ==
  \/ \E tool \in OptTools : set_tool_override(tool)
  \/ Gesture
  \/ toggle_rainbow_mode
  \/ \E d \in {3} : advance_rainbow_hue(d)
  \/ \E p \in PreviewAt : get_provisional_shape(p[1], p[2])
  \/ \E p \in PreviewAt : render_provisional_shape(p[1], p[2])

SpecPreview == Init /\ [][NextPreview]_vars

\* the last call was `op`, made in a Drawing state whose captured tool is in
\* `tools`
PreviewOf(op, tools) ==
  /\ last.op = op
  /\ pre.state.kind = "Drawing"
  /\ pre.state.tool \in tools

Min(a, b) == IF a <= b THEN a ELSE b

\* C12: for a Drawing state with tool Rect, any start point s and pointer
\* position c, get_provisional_shape yields a rectangle with
\* x = min(s.x, c.x), y = min(s.y, c.y), w = |c.x - s.x| >= 0 and
\* h = |c.y - s.y| >= 0, and the drag from c to s yields the same rectangle.
C12_RectIsNormalised ==
  PreviewOf("get_provisional_shape", {"Rect"})
  => LET sx == pre.state.start_x
         sy == pre.state.start_y
         cx == last.arg[1]
         cy == last.arg[2]
         swapped == [pre EXCEPT !.state.start_x = cx, !.state.start_y = cy]
     IN  /\ last.ret # None
         /\ last.ret[1].shape = "Rect"
         /\ last.ret[1].x = Min(sx, cx)
         /\ last.ret[1].y = Min(sy, cy)
         /\ last.ret[1].w = Abs(cx - sx)
         /\ last.ret[1].h = Abs(cy - sy)
         /\ last.ret[1].w >= 0
         /\ last.ret[1].h >= 0
         /\ provisional_shape(swapped, sx, sy) = last.ret

\* a drag up and to the left: from (3,4) to (0,0)
C12_Witness ==
  /\ PreviewOf("get_provisional_shape", {"Rect"})
  /\ pre.state.start_x = 3
  /\ pre.state.start_y = 4
  /\ last.arg = <<0, 0>>
  /\ last.ret # None
  /\ last.ret[1].x = 0
  /\ last.ret[1].y = 0
  /\ last.ret[1].w = 3
  /\ last.ret[1].h = 4

\* the Shape variant each tool previews with
ShapeOfTool ==
  [tool \in {"Pen", "Line", "Rect", "Ellipse", "Arrow", "Marker"} |->
     CASE tool = "Pen" -> "Freehand"
       [] tool = "Line" -> "Line"
       [] tool = "Rect" -> "Rect"
       [] tool = "Ellipse" -> "Ellipse"
       [] tool = "Arrow" -> "Arrow"
       [] tool = "Marker" -> "MarkerStroke"]

C16_PenPreviewCarriesRainbowColors ==
  LET expected ==
        IF pre.rainbow_mode_enabled
        THEN Some(rainbow_colors_for_points(pre, pre.state.points))
        ELSE None
  IN  /\ PreviewOf("get_provisional_shape", {"Pen"})
           => /\ last.ret # None
              /\ last.ret[1].per_point_colors = expected
      /\ PreviewOf("render_provisional_shape", {"Pen"})
           => /\ last.ret.call # None
              /\ last.ret.call[1].colors = expected
              /\ last.ret.call[1].colors =
                   provisional_shape(pre, last.arg[1], last.arg[2])[1].per_point_colors

\* the characteristic distance of a two-anchor preview
CharacteristicDistance(tool, sx, sy, cx, cy, shape) ==
  CASE tool \in {"Line", "Arrow"} ->
         Sqrt((cx - sx) * (cx - sx) + (cy - sy) * (cy - sy))
    [] tool = "Rect" ->
         Sqrt(Abs(cx - sx) * Abs(cx - sx) + Abs(cy - sy) * Abs(cy - sy))
    [] tool = "Ellipse" -> 2 * shape.rx

\* C17: for Drawing with tool Line, Arrow, Rect or Ellipse the preview's
\* start_color and end_color are both absent when rainbow mode is off and
\* both present when it is on; then the start color is the rainbow color of
\* rainbow_hue and the end color that of rainbow_hue + step * D, D being the
\* start-to-pointer distance (Line, Arrow), the diagonal (Rect), 2 * rx
\* (Ellipse).
C17_EndpointColorsFollowCharacteristicDistance ==
  PreviewOf("get_provisional_shape", {"Line", "Arrow", "Rect", "Ellipse"})
  => /\ last.ret # None
     /\ LET shape == last.ret[1]
            D == CharacteristicDistance(pre.state.tool, pre.state.start_x,
                   pre.state.start_y, last.arg[1], last.arg[2], shape)
        IN  IF pre.rainbow_mode_enabled
            THEN /\ shape.start_color =
                      Some(from_hsv(Rem(pre.rainbow_hue, 360)))
                 /\ shape.end_color =
                      Some(from_hsv(Rem(pre.rainbow_hue
                             + pre.rainbow_hue_step_per_pixel * D, 360)))
            ELSE /\ shape.start_color = None
                 /\ shape.end_color = None

\* a Line of length 5 previewed in rainbow mode at hue 90: its colors are
\* those of hues 90 and 240
C17_Witness ==
  /\ PreviewOf("get_provisional_shape", {"Line"})
  /\ pre.rainbow_mode_enabled
  /\ pre.rainbow_hue = 90
  /\ pre.state.start_x = 0
  /\ pre.state.start_y = 0
  /\ last.arg = <<3, 4>>
  /\ last.ret[1].start_color = Some(from_hsv(90))
  /\ last.ret[1].end_color = Some(from_hsv(240))

\* C20: render_provisional_shape returns true exactly in Drawing with
\* captured tool Pen, Marker, Eraser, Line, Rect, Ellipse or Arrow; so it
\* returns true whenever get_provisional_shape has a shape for the state, and
\* Drawing with Eraser is the only state where it returns true and
\* get_provisional_shape has none.
C20_RenderedIffPreviewable ==
  last.op = "render_provisional_shape"
  => LET owned == provisional_shape(pre, last.arg[1], last.arg[2])
     IN  /\ last.ret.ret =
              (/\ pre.state.kind = "Drawing"
               /\ pre.state.tool \in {"Pen", "Marker", "Eraser", "Line",
                                      "Rect", "Ellipse", "Arrow"})
         /\ owned # None => last.ret.ret
         /\ (last.ret.ret /\ owned = None)
              => (pre.state.kind = "Drawing" /\ pre.state.tool = "Eraser")

\* the eraser's preview is rendered although there is no owned shape
C20_Witness ==
  /\ PreviewOf("render_provisional_shape", {"Eraser"})
  /\ last.ret.ret
  /\ last.ret.call # None
  /\ provisional_shape(pre, last.arg[1], last.arg[2]) = None

----------------------------------------------------------------------------
(* The marker's color against opacity and color changes *)

NextMarker ==
  \/ \E v \in OpacityInputs : set_marker_opacity(v)
  \/ \E c \in ColorInputs : set_color(c)
  \/ toggle_rainbow_mode
  \/ \E tool \in {NoTool, "Marker"} : set_tool_override(tool)
  \/ Pointer
  \/ \E p \in {<<3, 4>>} : render_provisional_shape(p[1], p[2])

SpecMarker == Init /\ [][NextMarker]_vars

\* C13: in every reachable state the marker color's alpha equals
\* clamp(current_color.a * marker_opacity, 0.05, 0.9) and so lies in
\* [0.05, 0.9], its r, g, b are those of current_color, and every per-point
\* color handed to the marker renderer in rainbow mode has an alpha in
\* [0.05, 0.9].
C13_MarkerAlphaWithinBounds ==
  /\ marker_color(self).a =
       FClamp(FMul(self.current_color.a, self.marker_opacity),
              MIN_MARKER_OPACITY, MAX_MARKER_OPACITY)
  /\ InRange(marker_color(self).a, MIN_MARKER_OPACITY, MAX_MARKER_OPACITY)
  /\ marker_color(self).r = self.current_color.r
  /\ marker_color(self).g = self.current_color.g
  /\ marker_color(self).b = self.current_color.b
  /\ (/\ PreviewOf("render_provisional_shape", {"Marker"})
      /\ pre.rainbow_mode_enabled)
       => /\ last.ret.call # None
          /\ last.ret.call[1].colors # None
          /\ \A i \in 1..Len(last.ret.call[1].colors[1]) :
               InRange(last.ret.call[1].colors[1][i].a,
                       MIN_MARKER_OPACITY, MAX_MARKER_OPACITY)

----------------------------------------------------------------------------
(* Toolbar visibility: tool_controls.rs 127-190 *)

\* faulty variant: only the combined flag is compared
set_toolbar_visible_by_combined_flag(visible) ==
  IF self.toolbar_visible = visible
  THEN self' = self /\ Returns("set_toolbar_visible", visible, FALSE)
  ELSE /\ self' = [self EXCEPT !.toolbar_visible = visible,
                               !.toolbar_top_visible = visible,
                               !.toolbar_side_visible = visible,
                               !.needs_redraw = TRUE]
       /\ Returns("set_toolbar_visible", visible, TRUE)

set_toolbar_visible(visible) ==
  LET any_change == \/ self.toolbar_visible # visible
                    \/ self.toolbar_top_visible # visible
                    \/ self.toolbar_side_visible # visible
  IN  IF ~any_change
      THEN self' = self /\ Returns("set_toolbar_visible", visible, FALSE)
      ELSE /\ self' = [self EXCEPT !.toolbar_visible = visible,
                                   !.toolbar_top_visible = visible,
                                   !.toolbar_side_visible = visible,
                                   !.needs_redraw = TRUE]
           /\ Returns("set_toolbar_visible", visible, TRUE)

toolbar_visible ==
  /\ self' = self
  /\ Returns("toolbar_visible", <<>>,
             \/ self.toolbar_visible
             \/ self.toolbar_top_visible
             \/ self.toolbar_side_visible)

toolbar_top_visible ==
  /\ self' = self
  /\ Returns("toolbar_top_visible", <<>>, self.toolbar_top_visible)

toolbar_side_visible ==
  /\ self' = self
  /\ Returns("toolbar_side_visible", <<>>, self.toolbar_side_visible)

\* faulty variant: the combined flag is set only when both toolbars are pinned
init_toolbar_from_config_requiring_both(top_pinned, side_pinned, use_icons, show_more_colors, show_actions_section, show_delay_sliders, show_marker_opacity_section) ==
  /\ self' = [self EXCEPT
                !.toolbar_top_pinned = top_pinned,
                !.toolbar_side_pinned = side_pinned,
                !.toolbar_top_visible = top_pinned,
                !.toolbar_side_visible = side_pinned,
                !.toolbar_visible = top_pinned /\ side_pinned,
                !.toolbar_sections =
                   <<use_icons, show_more_colors, show_actions_section,
                     show_delay_sliders, show_marker_opacity_section>>]
  /\ Returns("init_toolbar_from_config",
             <<top_pinned, side_pinned, use_icons, show_more_colors,
               show_actions_section, show_delay_sliders,
               show_marker_opacity_section>>, <<>>)

\* toolbar_sections holds toolbar_use_icons, show_more_colors,
\* show_actions_section, show_delay_sliders, show_marker_opacity_section
init_toolbar_from_config(top_pinned, side_pinned, use_icons, show_more_colors, show_actions_section, show_delay_sliders, show_marker_opacity_section) ==
  /\ self' = [self EXCEPT
                !.toolbar_top_pinned = top_pinned,
                !.toolbar_side_pinned = side_pinned,
                !.toolbar_top_visible = top_pinned,
                !.toolbar_side_visible = side_pinned,
                !.toolbar_visible = top_pinned \/ side_pinned,
                !.toolbar_sections =
                   <<use_icons, show_more_colors, show_actions_section,
                     show_delay_sliders, show_marker_opacity_section>>]
  /\ Returns("init_toolbar_from_config",
             <<top_pinned, side_pinned, use_icons, show_more_colors,
               show_actions_section, show_delay_sliders,
               show_marker_opacity_section>>, <<>>)

\* configurations handed to init_toolbar_from_config: every pin state, with
\* the icon mode and the three section toggles after it switched together
ToolbarConfigs ==
  {c \in [1..7 -> BOOLEAN] : c[4] = c[3] /\ c[5] = c[3] /\ c[6] = c[3]}

NextToolbar ==
  \/ \E v \in BOOLEAN : set_toolbar_visible(v)
  \/ \E c \in ToolbarConfigs :
       init_toolbar_from_config(c[1], c[2], c[3], c[4], c[5], c[6], c[7])
  \/ toolbar_visible
  \/ toolbar_top_visible
  \/ toolbar_side_visible
  \/ render_frame

SpecToolbar == Init /\ [][NextToolbar]_vars

\* C14: set_toolbar_visible(v) leaves toolbar_visible, toolbar_top_visible
\* and toolbar_side_visible all equal to v and returns true iff one of them
\* differed from v before; called again at once with the same v it returns
\* false and leaves the flags and needs_redraw as they were.
C14_ToolbarFlagsInLockstep ==
  last.op = "set_toolbar_visible"
  => LET v == last.arg
         differed == \/ pre.toolbar_visible # v
                     \/ pre.toolbar_top_visible # v
                     \/ pre.toolbar_side_visible # v
     IN  /\ self.toolbar_visible = v
         /\ self.toolbar_top_visible = v
         /\ self.toolbar_side_visible = v
         /\ last.ret = differed
         /\ last.again => (last.ret = FALSE /\ self = pre)

\* only the side toolbar was hidden: showing the toolbar counts as a change
C14_Witness ==
  /\ last.op = "set_toolbar_visible"
  /\ last.arg = TRUE
  /\ pre.toolbar_visible
  /\ pre.toolbar_top_visible
  /\ ~pre.toolbar_side_visible
  /\ last.ret = TRUE
  /\ self.toolbar_side_visible

----------------------------------------------------------------------------
(* The size dispatch and the tool change outside a gesture *)

\* C18: set_thickness_for_active_tool(v) and
\* nudge_thickness_for_active_tool(delta) act on one size slot: with Eraser
\* active only eraser_size may change, to clamp(v) respectively
\* clamp(eraser_size + delta), and current_thickness is unchanged; with any
\* other tool active only current_thickness may change and eraser_size is
\* unchanged.
C18_SizeDispatchTouchesOneSlot ==
  last.op \in {"set_thickness_for_active_tool", "nudge_thickness_for_active_tool"}
  => LET active == IF pre.tool_override # NoTool THEN pre.tool_override
                   ELSE DefaultTool
         slot == IF active = "Eraser" THEN pre.eraser_size
                 ELSE pre.current_thickness
         asked == IF last.op = "set_thickness_for_active_tool" THEN last.arg
                  ELSE FAdd(slot, last.arg)
         clamped == FClamp(asked, MIN_STROKE_THICKNESS, MAX_STROKE_THICKNESS)
     IN  IF active = "Eraser"
         THEN /\ self.current_thickness = pre.current_thickness
              /\ self.eraser_size \in {pre.eraser_size, clamped}
         ELSE /\ self.eraser_size = pre.eraser_size
              /\ self.current_thickness \in {pre.current_thickness, clamped}

\* with the Eraser active a nudge of 49 takes the eraser size from 25 to the
\* upper bound and leaves the thickness at another value
C18_Witness ==
  /\ last.op = "nudge_thickness_for_active_tool"
  /\ pre.tool_override = "Eraser"
  /\ last.arg = Fx(49)
  /\ pre.eraser_size = Fx(25)
  /\ self.eraser_size = MAX_STROKE_THICKNESS
  /\ pre.current_thickness = Fx(25) + F64_EPSILON
  /\ self.current_thickness = pre.current_thickness

\* C19: set_tool_override called in TextInput or Idle with a value different
\* from the current override leaves the drawing state as it was (TextInput
\* with its payload, Idle), stores the override, marks the dirty tracker
\* fully dirty, sets needs_redraw and returns true.
C19_ToolChangeKeepsTextInput ==
  (/\ last.op = "set_tool_override"
   /\ pre.state.kind \in {"Idle", "TextInput"}
   /\ last.arg # pre.tool_override)
  => (/\ self.state = pre.state
      /\ self.tool_override = last.arg
      /\ self.dirty_full
      /\ self.needs_redraw
      /\ last.ret = TRUE)

\* text entry with a typed buffer survives the change to Rect
C19_Witness ==
  /\ last.op = "set_tool_override"
  /\ pre.state.kind = "TextInput"
  /\ pre.state.buffer = "a"
  /\ pre.tool_override = NoTool
  /\ ~pre.dirty_full
  /\ ~pre.needs_redraw
  /\ last.arg = "Rect"
  /\ self.state = pre.state
  /\ self.dirty_full

----------------------------------------------------------------------------
(* The combined toolbar flag *)

\* C22: starting with all toolbar flags false, after any sequence of
\* init_toolbar_from_config and set_toolbar_visible calls the stored combined
\* flag equals toolbar_top_visible OR toolbar_side_visible, so the
\* toolbar_visible() getter is true iff the top or the side toolbar is
\* visible, and set_toolbar_visible never changes the pinned flags.
C22_CombinedFlagIsTopOrSide ==
  /\ self.toolbar_visible =
       (self.toolbar_top_visible \/ self.toolbar_side_visible)
  /\ last.op = "toolbar_visible"
       => last.ret = (self.toolbar_top_visible \/ self.toolbar_side_visible)
  /\ last.op = "set_toolbar_visible"
       => /\ self.toolbar_top_pinned = pre.toolbar_top_pinned
          /\ self.toolbar_side_pinned = pre.toolbar_side_pinned

\* the top toolbar alone was pinned at startup; hiding the toolbar clears the
\* three visibility flags and keeps the pin
C22_Witness ==
  /\ last.op = "set_toolbar_visible"
  /\ last.arg = FALSE
  /\ last.ret = TRUE
  /\ pre.toolbar_visible
  /\ pre.toolbar_top_visible
  /\ ~pre.toolbar_side_visible
  /\ ~self.toolbar_visible
  /\ ~self.toolbar_top_visible
  /\ self.toolbar_top_pinned
  /\ ~self.toolbar_side_pinned

----------------------------------------------------------------------------
(* Every operation of the core against a gesture in flight *)

\* tool_controls.rs 41-43
tool_override ==
  /\ self' = self
  /\ Returns("tool_override", <<>>, self.tool_override)

NextCore ==
  \/ \E tool \in {NoTool, "Eraser"} : set_tool_override(tool)
  \/ tool_override
  \/ \E v \in {Fx(51)} : set_thickness(v)
  \/ \E v \in {Fx(51)} : set_eraser_size(v)
  \/ \E v \in {Fx(51)} : set_thickness_for_active_tool(v)
  \/ \E d \in {Fx(49)} : nudge_thickness_for_active_tool(d)
  \/ \E v \in {Fx(100)} : set_marker_opacity(v)
  \/ \E v \in {Fx(100)} : set_font_size(v)
  \/ \E d \in {"Mono"} : set_font_descriptor(d)
  \/ \E c \in {Clear} : set_color(c)
  \/ \E b \in {TRUE} : set_fill_enabled(b)
  \/ \E v \in {TRUE} : set_toolbar_visible(v)
  \/ \E b \in {TRUE} : init_toolbar_from_config(b, b, b, b, b, b, b)
  \/ toolbar_visible
  \/ toolbar_top_visible
  \/ toolbar_side_visible
  \/ toggle_rainbow_mode
  \/ \E d \in {6} : advance_rainbow_hue(d)
  \/ \E d \in {3} : rainbow_color_at_distance(d)
  \/ \E h \in {90} : rainbow_color_from_hue(h)
  \/ get_rainbow_hue
  \/ is_rainbow_mode_enabled
  \/ \E points \in {<<<<0, 0>>, <<3, 4>>>>} :
       generate_rainbow_colors_for_points(points)
  \/ \E p \in {<<3, 4>>} : get_provisional_shape(p[1], p[2])
  \/ \E p \in {<<3, 4>>} : render_provisional_shape(p[1], p[2])
  \/ \E p \in {<<0, 0>>} : on_mouse_press(p)
  \/ \E p \in {<<3, 4>>} : on_mouse_motion(p)
  \/ on_mouse_release

SpecCore == Init /\ [][NextCore]_vars

\* the methods of the core other than set_tool_override
FrameOps ==
  {"tool_override", "set_thickness", "set_eraser_size",
   "set_thickness_for_active_tool", "nudge_thickness_for_active_tool",
   "set_marker_opacity", "set_font_size", "set_font_descriptor", "set_color",
   "set_fill_enabled", "set_toolbar_visible", "init_toolbar_from_config",
   "toolbar_visible", "toolbar_top_visible", "toolbar_side_visible",
   "toggle_rainbow_mode", "advance_rainbow_hue", "rainbow_color_at_distance",
   "rainbow_color_from_hue", "get_rainbow_hue", "is_rainbow_mode_enabled",
   "generate_rainbow_colors_for_points", "get_provisional_shape",
   "render_provisional_shape"}

\* C21: among the operations of the core only set_tool_override with a
\* changed value can end a gesture: every style setter, set_toolbar_visible,
\* init_toolbar_from_config, toggle_rainbow_mode, advance_rainbow_hue and
\* every preview or query leaves the drawing state (variant, captured tool,
\* start point, accumulated points) and the tool override unchanged, in
\* Drawing as in Idle.
C21_OnlyToolChangeEndsGesture ==
  /\ last.op \in FrameOps
       => /\ self.state = pre.state
          /\ self.tool_override = pre.tool_override
  /\ (last.op = "set_tool_override" /\ last.arg = pre.tool_override)
       => /\ self.state = pre.state
          /\ self.tool_override = pre.tool_override

\* rainbow mode is switched on in the middle of a two-point Pen stroke
C21_Witness ==
  /\ last.op = "toggle_rainbow_mode"
  /\ pre.state.kind = "Drawing"
  /\ pre.state.tool = "Pen"
  /\ Len(pre.state.points) = 2
  /\ self.rainbow_mode_enabled
  /\ self.state = pre.state

====
